---- MODULE Spec2Model ----
(***************************************************************************)
(* A model of goiter: iterators built from Go channels.                    *)
(*                                                                         *)
(* A pipeline is one source (Range, Seq), a chain of transform stages      *)
(* (Map, Filter, Take, Drop) and one terminal call (Collect, Reduce).      *)
(* Every source and every transform runs its loop in a goroutine of its    *)
(* own and owns one unbuffered channel; the terminal call runs in the      *)
(* caller's goroutine.  Task 0 is the source, tasks 1..K the transforms,   *)
(* task K+1 the terminal call.  Channel i is the channel task i sends on.  *)
(***************************************************************************)
EXTENDS Integers, Sequences, FiniteSets, TLC

VARIABLES
    src,      \* the source: [kind, from, to, cap]
    stages,   \* the chain of transforms: sequence of [op, fn, n]
    term,     \* the terminal call: [op, init, fn]
    pc,       \* pc[i]: where task i stands
    val,      \* val[i]: the value task i is sending (meaningful at pc "send")
    cnt,      \* cnt[i]: Range's i, Seq's n, Take's and Drop's count
    closed,   \* closed[i]: channel i was closed
    acc,      \* Reduce's accumulator
    s,        \* Collect's slice
    out       \* history: out[i] is what has been received from channel i so far

vars == <<src, stages, term, pc, val, cnt, closed, acc, s, out>>

config == <<src, stages, term>>

----------------------------------------------------------------------------
(* Bounds of the model *)

\* transforms in a generated chain
MaxStages == 2
\* Range(from, to) is called with from in -1..0 and to in -1..MaxRange
MaxRange == 2
\* Take(n) and Drop(n) are called with n in -1..MaxCount
MaxCount == 1
\* squares(n), fac(n), primes(n) and Seq().Take(n) are called with n in 0..MaxArg
MaxArg == 5

----------------------------------------------------------------------------
(* The callbacks the repository passes to Map, Filter and Reduce *)

\* isPrime with i*i < n for the loop condition
RECURSIVE isPrimeFromLT(_, _)
isPrimeFromLT(n, i) ==
    IF i * i < n
    THEN IF n % i = 0 THEN FALSE ELSE isPrimeFromLT(n, i + 1)
    ELSE TRUE

\* isPrime: trial division from i while i*i <= n
RECURSIVE isPrimeFrom(_, _)
isPrimeFrom(n, i) ==
    IF i * i <= n
    THEN IF n % i = 0 THEN FALSE ELSE isPrimeFrom(n, i + 1)
    ELSE TRUE

isPrime(n) == isPrimeFrom(n, 2)

\* Go's x%2 == 0 (the remainder keeps the dividend's sign; it is 0 for the same x)
isEven(x) == IF x >= 0 THEN x % 2 = 0 ELSE (0 - x) % 2 = 0

square(x) == x * x

\* a caller's predicate that holds for two naturals only
isBit(x) == x = 0 \/ x = 1

add(a, c) == a + c

mul(a, c) == a * c

MapFns == {"square"}

Preds == {"isEven", "isPrime"}

ApplyFn(fn, x) == IF fn = "square" THEN square(x) ELSE x

ApplyPred(pred, x) ==
    IF pred = "isEven" THEN isEven(x)
    ELSE IF pred = "isBit" THEN isBit(x)
    ELSE isPrime(x)

ApplyFold(fn, a, x) == IF fn = "add" THEN add(a, x) ELSE mul(a, x)

----------------------------------------------------------------------------
(* The pipelines *)

K == Len(stages)

Term == K + 1

Producers == 0..K

Transforms == 1..K

\* the function task i runs
OpOf(i) == IF i = 0 THEN src.kind ELSE IF i = Term THEN term.op ELSE stages[i].op

Counts == (0 - 1)..MaxCount

StageOps ==
    [op : {"Map"}, fn : MapFns, n : {0}]
    \cup [op : {"Filter"}, fn : Preds, n : {0}]
    \cup [op : {"Take", "Drop"}, fn : {""}, n : Counts]

Chains == UNION {[1..m -> StageOps] : m \in 0..MaxStages}

\* Seq never stops; the model lets it hand off the values below cap only
GenericCap == 2 * MaxCount + 1

Sources ==
    [kind : {"Range"}, from : (0 - 1)..0, to : (0 - 1)..MaxRange, cap : {0}]
    \cup [kind : {"Seq"}, from : {0}, to : {0}, cap : {GenericCap}]

Terminals ==
    [op : {"Collect"}, init : {0}, fn : {""}]
    \cup {[op |-> "Reduce", init |-> 0, fn |-> "add"],
          [op |-> "Reduce", init |-> 1, fn |-> "mul"]}

\* the mathematical primes, for the bound of primes(n) and for the claims
IsPrimeNumber(p) == p > 1 /\ \A d \in 2..(p - 1) : p % d # 0

RECURSIVE NextPrimeNumber(_)
NextPrimeNumber(p) == IF IsPrimeNumber(p) THEN p ELSE NextPrimeNumber(p + 1)

RECURSIVE FirstPrimeNumbers(_, _)
FirstPrimeNumbers(n, from) ==
    IF n <= 0 THEN <<>>
    ELSE LET p == NextPrimeNumber(from)
         IN <<p>> \o FirstPrimeNumbers(n - 1, p + 1)

\* primes(n) reads Seq up to the (n+1)-th prime; its stages then fill up to
\* the (n+2)-th prime and the two values after it
ExamplesCap == FirstPrimeNumbers(MaxArg + 2, 2)[MaxArg + 2] + 2

\* primes(n): Seq().Drop(2).Filter(isPrime).Take(n).Collect()
PrimesStages(n) ==
    << [op |-> "Drop", fn |-> "", n |-> 2],
       [op |-> "Filter", fn |-> "isPrime", n |-> 0],
       [op |-> "Take", fn |-> "", n |-> n] >>

IsPrimesPipeline ==
    /\ src.kind = "Seq"
    /\ K = 3
    /\ stages = PrimesStages(stages[3].n)
    /\ term.op = "Collect"

InitState ==
    /\ pc = [i \in 0..(K + 1) |-> "start"]
    /\ val = [i \in 0..K |-> 0]
    /\ cnt = [i \in 0..K |-> IF i = 0 THEN src.from ELSE 0]
    /\ closed = [i \in 0..K |-> FALSE]
    /\ acc = 0
    /\ s = <<>>
    /\ out = [i \in 0..K |-> <<>>]

InitGeneric ==
    /\ src \in Sources
    /\ stages \in Chains
    /\ term \in Terminals
    /\ InitState

\* primes(n)
InitPrimes ==
    /\ src = [kind |-> "Seq", from |-> 0, to |-> 0, cap |-> ExamplesCap]
    /\ \E n \in 0..MaxArg : stages = PrimesStages(n)
    /\ term = [op |-> "Collect", init |-> 0, fn |-> ""]
    /\ InitState

\* squares(n): Range(1, n+1).Map(func(x int) int { return x * x }).Collect()
InitSquares ==
    /\ \E n \in 0..MaxArg : src = [kind |-> "Range", from |-> 1, to |-> n + 1, cap |-> 0]
    /\ stages = << [op |-> "Map", fn |-> "square", n |-> 0] >>
    /\ term = [op |-> "Collect", init |-> 0, fn |-> ""]
    /\ InitState

\* fac(n): Range(1, n+1).Reduce(1, func(acc, cur int) int { return acc * cur })
InitFac ==
    /\ \E n \in 0..MaxArg : src = [kind |-> "Range", from |-> 1, to |-> n + 1, cap |-> 0]
    /\ stages = << >>
    /\ term = [op |-> "Reduce", init |-> 1, fn |-> "mul"]
    /\ InitState

\* Seq().Take(n).Collect()
InitSeqTake ==
    /\ src = [kind |-> "Seq", from |-> 0, to |-> 0, cap |-> ExamplesCap]
    /\ \E n \in 0..MaxArg : stages = << [op |-> "Take", fn |-> "", n |-> n] >>
    /\ term = [op |-> "Collect", init |-> 0, fn |-> ""]
    /\ InitState

\* Seq().Filter(isBit).Take(n).Collect(): for n >= 2 Filter passes fewer
\* elements on than Take asks for
InitSeqFilterTake ==
    /\ src = [kind |-> "Seq", from |-> 0, to |-> 0, cap |-> ExamplesCap]
    /\ \E n \in 0..MaxArg :
        stages = << [op |-> "Filter", fn |-> "isBit", n |-> 0],
                    [op |-> "Take", fn |-> "", n |-> n] >>
    /\ term = [op |-> "Collect", init |-> 0, fn |-> ""]
    /\ InitState

Init ==
    \/ InitGeneric
    \/ InitPrimes
    \/ InitSquares
    \/ InitFac
    \/ InitSeqTake
    \/ InitSeqFilterTake

\* the pipelines explored under fair scheduling: fewer arguments, the same calls
FairStageOps ==
    {[op |-> "Map", fn |-> "square", n |-> 0],
     [op |-> "Filter", fn |-> "isEven", n |-> 0],
     [op |-> "Drop", fn |-> "", n |-> MaxCount]}
    \cup [op : {"Take"}, fn : {""}, n : Counts]

FairChains == UNION {[1..m -> FairStageOps] : m \in 0..MaxStages}

\* the sum of the counts Take and Drop are called with in chain ch
RECURSIVE CountSum(_)
CountSum(ch) ==
    IF ch = <<>> THEN 0
    ELSE (IF Head(ch).n > 0 THEN Head(ch).n ELSE 0) + CountSum(Tail(ch))

\* under fair scheduling Seq is cut past every value the chain ch can ask for:
\* what a Take reads and what the stages before it hold once it has stopped
FairCap(ch) == 2 * (Len(ch) + CountSum(ch)) + 1

FairSources(ch) ==
    [kind : {"Range"}, from : {0}, to : 0..MaxRange, cap : {0}]
    \cup {[kind |-> "Range", from |-> 0, to |-> 0 - 1, cap |-> 0],
          [kind |-> "Seq", from |-> 0, to |-> 0, cap |-> FairCap(ch)]}

FairTerminals ==
    {[op |-> "Collect", init |-> 0, fn |-> ""],
     [op |-> "Reduce", init |-> 0, fn |-> "add"]}

InitFairGeneric ==
    /\ stages \in FairChains
    /\ src \in FairSources(stages)
    /\ term \in FairTerminals
    /\ InitState

InitFair ==
    \/ InitFairGeneric
    \/ InitPrimes
    \/ InitSquares
    \/ InitFac
    \/ InitSeqTake
    \/ InitSeqFilterTake

----------------------------------------------------------------------------
(* The steps of the tasks *)

\* Range with i <= to for the loop condition
RangeCondLE(i, to) == i <= to

\* Range's loop condition
RangeCond(i, to) == i < to

\* Take with count <= n for the test
TakeCondLE(count, n) == count <= n

\* Take's test: the element is passed on
TakeCond(count, n) == count < n

\* Drop with count <= n for the test
DropCondLE(count, n) == count <= n

\* Drop's test: the element is skipped
DropCond(count, n) == count < n

\* Map sending x instead of fn(x)
MapEmitArg(fn, x) == x

\* Map with a callback that reads what another task writes: fn(x) is one more
\* until the caller has called
MapEmitRacy(fn, x) == ApplyFn(fn, x) + (IF pc[Term] = "start" THEN 1 ELSE 0)

\* what Map sends for x
MapEmit(fn, x) == ApplyFn(fn, x)

\* Filter keeping the elements that fail pred
FilterKeepNot(pred, x) == ~ApplyPred(pred, x)

\* Filter's test: the element is passed on
FilterKeep(pred, x) == ApplyPred(pred, x)

\* Reduce with acc = fn(init, x)
ReduceStepInit(fn, a, x) == ApplyFold(fn, term.init, x)

\* Reduce's new accumulator
ReduceStep(fn, a, x) == ApplyFold(fn, a, x)

\* Collect putting x in front of the slice
CollectStepPrepend(sl, x) == <<x>> \o sl

\* Collect's new slice
CollectStep(sl, x) == Append(sl, x)

\* Map with a send that gives up when nobody receives
MapNextSkip == "recv"

\* Map after a receive: ch <- fn(x)
MapNext == "send"

\* Filter with a send that gives up when nobody receives
FilterPassSkip == "recv"

\* Filter after a receive of an element that satisfies pred: ch <- x
FilterPass == "send"

\* Filter leaving its loop at an element that fails pred
FilterSkipBreak == "exit"

\* Filter after a receive of an element that fails pred: the next receive
FilterSkip == "recv"

\* a producer that closes its channel a second time
ClosedPcAgain == "exit"

\* a producer after its deferred close: the goroutine has ended
ClosedPc == "done"

\* a producer that ends without closing its channel
AfterCloseOpen == FALSE

\* close(ch), deferred: the channel's state afterwards
AfterClose == TRUE

\* go func() { ... }(): the goroutine of producer i starts running
Spawn(i) ==
    /\ i \in Producers
    /\ pc[i] = "start"
    /\ pc' = [pc EXCEPT ![i] = IF OpOf(i) = "Range" THEN "loop"
                               ELSE IF OpOf(i) = "Seq" THEN "send"
                               ELSE "recv"]
    /\ val' = [val EXCEPT ![i] = IF OpOf(i) = "Seq" THEN cnt[i] ELSE @]
    /\ UNCHANGED <<config, cnt, closed, acc, s, out>>

\* Range: for i := from; i < to; i++ { ch <- i }
RangeLoop ==
    /\ OpOf(0) = "Range"
    /\ pc[0] = "loop"
    /\ IF RangeCond(cnt[0], src.to)
       THEN /\ pc' = [pc EXCEPT ![0] = "send"]
            /\ val' = [val EXCEPT ![0] = cnt[0]]
       ELSE /\ pc' = [pc EXCEPT ![0] = "exit"]
            /\ val' = val
    /\ UNCHANGED <<config, cnt, closed, acc, s, out>>

\* task i can receive a value from channel i-1: its producer stands at the send
CanReceive(i) ==
    /\ i \in 1..Term
    /\ pc[i] = "recv"
    /\ pc[i - 1] = "send"
    /\ ~closed[i - 1]
    /\ OpOf(i - 1) = "Seq" => cnt[i - 1] < src.cap

\* Seq ending after its first send
SenderPcSeqEnds(j) ==
    IF OpOf(j) = "Range" THEN "loop"
    ELSE IF OpOf(j) = "Seq" THEN "exit"
    ELSE "recv"

\* Take leaving its loop as soon as it has sent n elements
SenderPcTakeStops(j) ==
    IF OpOf(j) = "Range" THEN "loop"
    ELSE IF OpOf(j) = "Seq" THEN "send"
    ELSE IF OpOf(j) = "Take" /\ cnt[j] + 1 >= stages[j].n THEN "exit"
    ELSE "recv"

\* where the sender j goes once its send was taken
SenderPc(j) ==
    IF OpOf(j) = "Range" THEN "loop"
    ELSE IF OpOf(j) = "Seq" THEN "send"
    ELSE "recv"

\* Seq without its n++
SenderCntNoSeq(j) == IF OpOf(j) \in {"Range", "Take"} THEN cnt[j] + 1 ELSE cnt[j]

\* Range's i++, Seq's n++, Take's count++ follow the send
SenderCnt(j) == IF OpOf(j) \in {"Range", "Seq", "Take"} THEN cnt[j] + 1 ELSE cnt[j]

\* Seq sending the value it sent before
SenderValStale(j) == val[j]

\* Seq's next send is of n after n++
SenderVal(j) == IF OpOf(j) = "Seq" THEN cnt[j] + 1 ELSE val[j]

\* the rendezvous on channel i-1, and what its receiver i does with x up to its
\* next channel operation: rpc, rval, rcnt are the receiver's new pc, val, cnt
Handoff(i, rpc, rval, rcnt) ==
    /\ pc' = [pc EXCEPT ![i - 1] = SenderPc(i - 1), ![i] = rpc]
    /\ val' = [val EXCEPT ![i - 1] = SenderVal(i - 1), ![i] = rval]
    /\ cnt' = [cnt EXCEPT ![i - 1] = SenderCnt(i - 1), ![i] = rcnt]
    /\ out' = [out EXCEPT ![i - 1] = Append(@, val[i - 1])]
    /\ UNCHANGED <<config, closed>>

\* Map: for x := range it { ch <- fn(x) }
MapBody(i) ==
    /\ i \in Transforms
    /\ OpOf(i) = "Map"
    /\ CanReceive(i)
    /\ Handoff(i, MapNext, MapEmit(stages[i].fn, val[i - 1]), cnt[i])
    /\ UNCHANGED <<acc, s>>

\* Filter: for x := range it { if pred(x) { ch <- x } }
FilterBody(i) ==
    /\ i \in Transforms
    /\ OpOf(i) = "Filter"
    /\ CanReceive(i)
    /\ IF FilterKeep(stages[i].fn, val[i - 1])
       THEN Handoff(i, FilterPass, val[i - 1], cnt[i])
       ELSE Handoff(i, FilterSkip, val[i], cnt[i])
    /\ UNCHANGED <<acc, s>>

\* Take: for x := range it { if count < n { ch <- x; count++ } else { break } }
TakeBody(i) ==
    /\ i \in Transforms
    /\ OpOf(i) = "Take"
    /\ CanReceive(i)
    /\ IF TakeCond(cnt[i], stages[i].n)
       THEN Handoff(i, "send", val[i - 1], cnt[i])
       ELSE Handoff(i, "exit", val[i], cnt[i])
    /\ UNCHANGED <<acc, s>>

\* Drop: for x := range it { if count < n { count++ } else { ch <- x } }
DropBody(i) ==
    /\ i \in Transforms
    /\ OpOf(i) = "Drop"
    /\ CanReceive(i)
    /\ IF DropCond(cnt[i], stages[i].n)
       THEN Handoff(i, "recv", val[i], cnt[i] + 1)
       ELSE Handoff(i, "send", val[i - 1], cnt[i])
    /\ UNCHANGED <<acc, s>>

\* for x := range it ends: transform i finds channel i-1 closed
UpstreamClosed(i) ==
    /\ i \in Transforms
    /\ pc[i] = "recv"
    /\ closed[i - 1]
    /\ pc' = [pc EXCEPT ![i] = "exit"]
    /\ UNCHANGED <<config, val, cnt, closed, acc, s, out>>

\* defer close(ch): producer i leaves its loop, closes channel i and ends
DeferClose(i) ==
    /\ i \in Producers
    /\ pc[i] = "exit"
    /\ closed' = [closed EXCEPT ![i] = AfterClose]
    /\ pc' = [pc EXCEPT ![i] = ClosedPc]
    /\ UNCHANGED <<config, val, cnt, acc, s, out>>

\* the caller calls Reduce(init, fn) or Collect(): acc := init, var s []int
Call ==
    /\ pc[Term] = "start"
    /\ pc' = [pc EXCEPT ![Term] = "recv"]
    /\ acc' = IF term.op = "Reduce" THEN term.init ELSE acc
    /\ s' = <<>>
    /\ UNCHANGED <<config, val, cnt, closed, out>>

\* Reduce: for x := range it { acc = fn(acc, x) }
ReduceBody ==
    /\ term.op = "Reduce"
    /\ CanReceive(Term)
    /\ pc' = [pc EXCEPT ![K] = SenderPc(K)]
    /\ val' = [val EXCEPT ![K] = SenderVal(K)]
    /\ cnt' = [cnt EXCEPT ![K] = SenderCnt(K)]
    /\ out' = [out EXCEPT ![K] = Append(@, val[K])]
    /\ acc' = ReduceStep(term.fn, acc, val[K])
    /\ UNCHANGED <<config, closed, s>>

\* Collect: for x := range it { s = append(s, x) }
CollectBody ==
    /\ term.op = "Collect"
    /\ CanReceive(Term)
    /\ pc' = [pc EXCEPT ![K] = SenderPc(K)]
    /\ val' = [val EXCEPT ![K] = SenderVal(K)]
    /\ cnt' = [cnt EXCEPT ![K] = SenderCnt(K)]
    /\ out' = [out EXCEPT ![K] = Append(@, val[K])]
    /\ s' = CollectStep(s, val[K])
    /\ UNCHANGED <<config, closed, acc>>

\* return acc / return s: the terminal call finds channel K closed
Return ==
    /\ pc[Term] = "recv"
    /\ closed[K]
    /\ pc' = [pc EXCEPT ![Term] = "done"]
    /\ UNCHANGED <<config, val, cnt, closed, acc, s, out>>

\* the longest pipeline is the generated chain or primes' three transforms
TaskIds == 0..((IF MaxStages > 3 THEN MaxStages ELSE 3) + 1)

\* the steps of task i; a rendezvous is a step of its receiver
Step(i) ==
    \/ Spawn(i)
    \/ (i = 0 /\ RangeLoop)
    \/ MapBody(i)
    \/ FilterBody(i)
    \/ TakeBody(i)
    \/ DropBody(i)
    \/ UpstreamClosed(i)
    \/ DeferClose(i)
    \/ (i = Term /\ (Call \/ ReduceBody \/ CollectBody \/ Return))

Next ==
    \/ \E i \in Producers : Spawn(i)
    \/ RangeLoop
    \/ \E i \in Transforms : MapBody(i)
    \/ \E i \in Transforms : FilterBody(i)
    \/ \E i \in Transforms : TakeBody(i)
    \/ \E i \in Transforms : DropBody(i)
    \/ \E i \in Transforms : UpstreamClosed(i)
    \/ \E i \in Producers : DeferClose(i)
    \/ Call
    \/ ReduceBody
    \/ CollectBody
    \/ Return

Spec == Init /\ [][Next]_vars

\* the Go scheduler runs every goroutine that can take a step
FairSpec == InitFair /\ [][Next]_vars /\ \A i \in TaskIds : WF_vars(Step(i))

----------------------------------------------------------------------------
(* What draining a finite pipeline is to yield, as lists *)

Min(a, b) == IF a < b THEN a ELSE b

Max(a, b) == IF a > b THEN a ELSE b

IsPrefix(a, b) == Len(a) <= Len(b) /\ a = SubSeq(b, 1, Len(a))

RangeList(a, b) == [j \in 1..(b - a) |-> a + j - 1]

MapList(fn, S) == [j \in 1..Len(S) |-> ApplyFn(fn, S[j])]

FilterList(pred, S) == SelectSeq(S, LAMBDA x : ApplyPred(pred, x))

TakeList(S, n) == SubSeq(S, 1, Min(Max(n, 0), Len(S)))

DropList(S, n) == SubSeq(S, Max(n, 0) + 1, Len(S))

RECURSIVE FoldLeft(_, _, _)
FoldLeft(fn, a, S) ==
    IF S = <<>> THEN a ELSE FoldLeft(fn, ApplyFold(fn, a, Head(S)), Tail(S))

\* the sequence channel i carries when it is drained, for a Range source
RECURSIVE Yield(_)
Yield(i) ==
    IF i = 0 THEN RangeList(src.from, src.to)
    ELSE LET S == Yield(i - 1)
             st == stages[i]
         IN CASE st.op = "Map" -> MapList(st.fn, S)
              [] st.op = "Filter" -> FilterList(st.fn, S)
              [] st.op = "Take" -> TakeList(S, st.n)
              [] st.op = "Drop" -> DropList(S, st.n)

IsFinite == src.kind = "Range"

StagesOf(op) == {i \in Transforms : stages[i].op = op}

----------------------------------------------------------------------------
(* The claims *)

\* every task has ended and every channel is closed
AllDone ==
    /\ \A i \in 0..Term : pc[i] = "done"
    /\ \A i \in Producers : closed[i]

\* Range(a,b) followed by Map, Filter and Drop stages only
IsRangeMapFilterDrop == IsFinite /\ StagesOf("Take") = {}

\* C1: a pipeline of Range(a,b), any chain of Map, Filter and Drop stages and a
\* final Collect or Reduce never stops before its end and, under fair
\* scheduling, ends: the terminal call has returned, every producer task has
\* ended and every channel is closed, for good.
C1_FinitePipelinesTerminate ==
    IsRangeMapFilterDrop => ([](AllDone \/ ENABLED Next) /\ <>[]AllDone)

\* C1's case: a two-stage pipeline over a Range of several elements has ended
C1_Witness ==
    /\ IsRangeMapFilterDrop
    /\ K = 2
    /\ Len(out[0]) >= 2
    /\ AllDone

\* C2: for a finite S and every n, Take(S,n) emits the elements of the first
\* min(max(n,0), len(S)) of S in order and nothing else, its output is closed
\* only once all of them were emitted and, when Take's consumer drains it, the
\* output is closed in the end; with len(S) <= n that is S itself.
C2_TakeYieldsPrefix ==
    /\ [](IsFinite =>
            \A i \in StagesOf("Take") :
                LET S == Yield(i - 1)
                    n == stages[i].n
                    want == SubSeq(S, 1, Min(Max(n, 0), Len(S)))
                IN /\ IsPrefix(out[i], want)
                   /\ closed[i] => out[i] = want
                   /\ (closed[i] /\ Len(S) <= n) => out[i] = S)
    /\ (IsFinite /\ K >= 1 /\ stages[K].op = "Take") => <>[](closed[K])

\* C2's case: Take(1) of a longer sequence has closed after one element
C2_Witness ==
    /\ IsFinite
    /\ \E i \in StagesOf("Take") :
        /\ stages[i].n = 1
        /\ Len(Yield(i - 1)) >= 2
        /\ closed[i]
        /\ Len(out[i]) = 1

\* C3: the Take task receives at most max(n,0) elements from its upstream.
C3_TakeReceivesAtMostN ==
    \A i \in StagesOf("Take") : Len(out[i - 1]) <= Max(stages[i].n, 0)

\* the Collect call of primes(n) has returned
PrimesDone == IsPrimesPipeline /\ pc[Term] = "done"

\* C4: for every n >= 0, Seq().Drop(2).Filter(isPrime).Take(n).Collect()
\* returns under fair scheduling, and what it returns is the first n prime
\* numbers in increasing order; for n = 5 that is [2,3,5,7,11].
C4_PrimesPipeline ==
    /\ [](PrimesDone =>
            /\ s = FirstPrimeNumbers(stages[3].n, 2)
            /\ stages[3].n = 5 => s = <<2, 3, 5, 7, 11>>)
    /\ IsPrimesPipeline => <>[](pc[Term] = "done")

\* C4's case: primes(5) has returned
C4_Witness == PrimesDone /\ stages[3].n = 5 /\ Len(s) = 5

\* Seq().Take(k).Collect() with k >= 0
IsSeqTake ==
    /\ src.kind = "Seq"
    /\ K = 1
    /\ stages[1].op = "Take"
    /\ stages[1].n >= 0
    /\ term.op = "Collect"

\* C5: for every k >= 0, Seq().Take(k).Collect() returns under fair scheduling,
\* and what it returns is [0,1,...,k-1], the empty list for k = 0.
C5_SeqTakeCollect ==
    /\ [](IsSeqTake /\ pc[Term] = "done" =>
            /\ s = [j \in 1..stages[1].n |-> j - 1]
            /\ Len(s) = stages[1].n)
    /\ IsSeqTake => <>[](pc[Term] = "done")

\* C5's case: Seq().Take(3).Collect() has returned
C5_Witness == IsSeqTake /\ stages[1].n = 3 /\ pc[Term] = "done" /\ s = <<0, 1, 2>>

\* C6: what Filter(S,pred) has emitted, with the element it is sending, is the
\* subsequence of the elements it has received that satisfy pred, in their
\* order; for a finite S the output is closed only once it carried the whole
\* subsequence of S's elements that satisfy pred.
C6_FilterYieldsSubsequence ==
    \A i \in StagesOf("Filter") :
        LET pred == stages[i].fn
            sent == IF pc[i] = "send" THEN Append(out[i], val[i]) ELSE out[i]
        IN /\ sent = SelectSeq(out[i - 1], LAMBDA x : ApplyPred(pred, x))
           /\ \A j \in 1..Len(out[i]) : ApplyPred(pred, out[i][j])
           /\ (IsFinite /\ closed[i]) =>
                out[i] = SelectSeq(Yield(i - 1), LAMBDA x : ApplyPred(pred, x))

\* C6's case: a Filter over a finite sequence has closed, having passed some
\* elements on and held others back
C6_Witness ==
    /\ IsFinite
    /\ \E i \in StagesOf("Filter") :
        /\ closed[i]
        /\ Len(out[i]) >= 1
        /\ Len(out[i]) < Len(Yield(i - 1))

\* C7: for a finite S and every n, the output of Drop(S,n) is closed only once
\* it carried the elements of S after the first max(n,0), in order:
\* max(0, len(S) - max(n,0)) of them, none when len(S) <= n, all of S when
\* n <= 0; and what Drop has emitted, with the element it is sending, is always
\* what it has received without the first max(n,0).
C7_DropYieldsRest ==
    \A i \in StagesOf("Drop") :
        LET n == stages[i].n
            sent == IF pc[i] = "send" THEN Append(out[i], val[i]) ELSE out[i]
        IN /\ sent = SubSeq(out[i - 1], Max(n, 0) + 1, Len(out[i - 1]))
           /\ (IsFinite /\ closed[i]) =>
                LET S == Yield(i - 1)
                IN /\ out[i] = SubSeq(S, Max(n, 0) + 1, Len(S))
                   /\ Len(out[i]) = Max(0, Len(S) - Max(n, 0))
                   /\ Len(S) <= n => out[i] = <<>>
                   /\ n <= 0 => out[i] = S

\* C7's case: Drop(1) of a longer finite sequence has closed
C7_Witness ==
    /\ IsFinite
    /\ \E i \in StagesOf("Drop") :
        /\ stages[i].n = 1
        /\ closed[i]
        /\ Len(out[i]) >= 1
        /\ Len(out[i]) = Len(Yield(i - 1)) - 1

\* C8: what Map(S,fn) has emitted, with the element it is sending, has the
\* length of what it has received and fn of its j-th element at every place j;
\* for a finite S the output is closed only once it carried fn of every
\* element of S, as many as S has.
C8_MapYieldsImage ==
    \A i \in StagesOf("Map") :
        LET fn == stages[i].fn
            sent == IF pc[i] = "send" THEN Append(out[i], val[i]) ELSE out[i]
        IN /\ Len(sent) = Len(out[i - 1])
           /\ \A j \in 1..Len(sent) : sent[j] = ApplyFn(fn, out[i - 1][j])
           /\ (IsFinite /\ closed[i]) =>
                /\ Len(out[i]) = Len(Yield(i - 1))
                /\ \A j \in 1..Len(out[i]) : out[i][j] = ApplyFn(fn, Yield(i - 1)[j])

\* C8's case: a Map over a finite sequence has closed, having changed an element
C8_Witness ==
    /\ IsFinite
    /\ \E i \in StagesOf("Map") :
        /\ closed[i]
        /\ Len(out[i]) >= 2
        /\ out[i] # Yield(i - 1)

\* C9: Reduce(S, init, fn) returns only after S has closed, and what it returns
\* is the left fold of fn over the elements S emitted, in order, from init:
\* init itself when S emitted nothing.
C9_ReduceIsLeftFold ==
    term.op = "Reduce" =>
        /\ pc[Term] # "start" => acc = FoldLeft(term.fn, term.init, out[K])
        /\ pc[Term] = "done" =>
            /\ closed[K]
            /\ out[K] = <<>> => acc = term.init
            /\ IsFinite => acc = FoldLeft(term.fn, term.init, Yield(K))

\* C9's case: Reduce has returned the fold of several elements
C9_Witness ==
    /\ term.op = "Reduce"
    /\ pc[Term] = "done"
    /\ Len(out[K]) >= 2
    /\ acc # term.init

\* C10: Range(a,b) emits a, a+1, ... in increasing order, never b or more, its
\* channel is closed only once it carried all of a..b-1, and with a >= b it
\* emits nothing.
C10_RangeYieldsInterval ==
    src.kind = "Range" =>
        /\ \A j \in 1..Len(out[0]) : out[0][j] = src.from + j - 1
        /\ \A j \in 1..Len(out[0]) : out[0][j] < src.to
        /\ closed[0] => Len(out[0]) = Max(src.to - src.from, 0)
        /\ src.from >= src.to => (out[0] = <<>> /\ pc[0] # "send")

\* C10's case: Range(a,b) has closed after three elements or more
C10_Witness ==
    /\ src.kind = "Range"
    /\ closed[0]
    /\ Len(out[0]) >= 3
    /\ out[0][1] = src.from
    /\ out[0][Len(out[0])] = src.to - 1

\* C11: Seq()'s channel is never closed and its goroutine never leaves its
\* loop, and the i-th element received from it is i-1: 0, 1, 2, ... with no
\* gap, repeat or reordering.
C11_SeqInfiniteOrdered ==
    src.kind = "Seq" =>
        /\ ~closed[0]
        /\ pc[0] \in {"start", "send"}
        /\ \A j \in 1..Len(out[0]) : out[0][j] = j - 1
        /\ pc[0] = "send" => val[0] = Len(out[0])

\* C11's case: three elements or more were received from Seq()
C11_Witness ==
    /\ src.kind = "Seq"
    /\ Len(out[0]) >= 3
    /\ out[0][3] = 2

\* C12: the slice of Collect(S) holds what S has emitted so far, in emission
\* order; Collect returns only after S has closed, and for a finite S it
\* returns the list of all of S's elements, the empty list when S has none.
C12_CollectIsEmitted ==
    term.op = "Collect" =>
        /\ s = out[K]
        /\ pc[Term] = "done" =>
            /\ closed[K]
            /\ IsFinite => s = Yield(K)
            /\ (IsFinite /\ Yield(K) = <<>>) => s = <<>>

\* C12's case: Collect has returned a list of two elements or more
C12_Witness ==
    /\ term.op = "Collect"
    /\ IsFinite
    /\ pc[Term] = "done"
    /\ Len(s) >= 2
    /\ s[1] # s[2]

\* a pipeline whose last channel never closes: Seq() and no Take
IsNeverClosing == src.kind = "Seq" /\ StagesOf("Take") = {}

\* C13: Reduce or Collect called on Seq(), or on Seq() followed by Map, Filter
\* and Drop stages only, never returns: once called it stands at its receive
\* in every state, and none of the pipeline's channels is ever closed.
C13_TerminalNeverReturns ==
    IsNeverClosing =>
        /\ pc[Term] \in {"start", "recv"}
        /\ \A i \in Producers : ~closed[i] /\ pc[i] \notin {"exit", "done"}

\* C13's case: the call has received elements of a never-closing pipeline of
\* two stages and stands at its receive again
C13_Witness ==
    /\ IsNeverClosing
    /\ K = 2
    /\ pc[Term] = "recv"
    /\ Len(out[K]) >= 2

\* the first Take stage of the pipeline, 0 when there is none
FirstTake ==
    IF StagesOf("Take") = {} THEN 0
    ELSE CHOOSE t \in StagesOf("Take") : \A u \in StagesOf("Take") : t <= u

\* stage i passes infinitely many elements of an infinite upstream on: Map and
\* Drop do, Filter(isEven) does over naturals, squares and their tails, and
\* Filter(isPrime) does over a tail of the naturals
PassesForever(i) ==
    \/ stages[i].op \in {"Map", "Drop"}
    \/ stages[i].op = "Filter" /\ stages[i].fn = "isEven"
    \/ /\ stages[i].op = "Filter"
       /\ stages[i].fn = "isPrime"
       /\ \A j \in 1..(i - 1) : stages[j].op = "Drop"

\* Take is applied to an infinite upstream: Seq() and stages that pass
\* infinitely many of its elements on
TakeOverInfinite ==
    /\ src.kind = "Seq"
    /\ FirstTake > 0
    /\ \A i \in 1..(FirstTake - 1) : PassesForever(i)

\* the producers upstream of the first Take
Leaked == 0..(FirstTake - 1)

\* C14: when Take is applied to an infinite upstream, no producer upstream of
\* Take ever ends or closes its channel and none sends on a closed channel; and
\* after Take has closed its output every one of them comes to stand at a send
\* that its receiver (a stage blocked likewise, or the ended Take) never takes,
\* and stays there forever.
C14_LeakedAfterTake ==
    /\ [](TakeOverInfinite =>
            \A i \in Leaked :
                /\ pc[i] \notin {"exit", "done"}
                /\ ~closed[i])
    /\ (TakeOverInfinite /\ closed[FirstTake])
         ~> [](\A i \in Leaked :
                  /\ pc[i] = "send"
                  /\ pc[i + 1] = (IF i + 1 = FirstTake THEN "done" ELSE "send"))

\* C14's case: in primes(n), n >= 2, Take has closed its output, the call has
\* returned, and Seq, Drop and Filter each stand at a send nobody takes
C14_Witness ==
    /\ IsPrimesPipeline
    /\ stages[3].n >= 2
    /\ closed[3]
    /\ pc[Term] = "done"
    /\ \A i \in 0..2 : pc[i] = "send" /\ ~closed[i]
    /\ val[0] < src.cap

\* Filter stage i receives an upstream element (and evaluates pred on it) in
\* this step
FilterReceives(i) == out'[i - 1] # out[i - 1]

\* C15 as stated: Filter receives an upstream element only while its consumer
\* is waiting to receive Filter's next output.
C15_FilterDemandDriven ==
    [][\A i \in StagesOf("Filter") : FilterReceives(i) => pc[i + 1] = "recv"]_vars

\* C15 amended: Filter receives an upstream element only when its consumer has
\* accepted every element Filter passed on so far, so it holds at most one
\* accepted-by-pred element its consumer has not taken; the consumer need not
\* be waiting for it.
C15_FilterOneAhead ==
    /\ [][\A i \in StagesOf("Filter") :
            FilterReceives(i) =>
                /\ pc[i] = "recv"
                /\ FilterList(stages[i].fn, out[i - 1]) = out[i]]_vars
    /\ [](\A i \in StagesOf("Filter") :
            Len(FilterList(stages[i].fn, out[i - 1])) <= Len(out[i]) + 1)

\* C15's case: Filter has evaluated pred on upstream elements, rejected one and
\* holds one for a consumer that has not started to receive
C15_Witness ==
    \E i \in StagesOf("Filter") :
        /\ pc[i + 1] = "start"
        /\ pc[i] = "send"
        /\ Len(out[i - 1]) >= 2
        /\ out[i] = <<>>

\* what stage i is to emit for the elements it has received so far
Due(i) ==
    LET S == out[i - 1]
        st == stages[i]
    IN CASE st.op = "Map" -> MapList(st.fn, S)
         [] st.op = "Filter" -> FilterList(st.fn, S)
         [] st.op = "Take" -> TakeList(S, st.n)
         [] st.op = "Drop" -> DropList(S, st.n)

\* the elements stage i has received and neither emitted nor discarded
InHand(i) == Len(Due(i)) - Len(out[i])

\* C16: every Map, Filter, Take and Drop stage holds at most one element it has
\* received and not yet emitted or discarded, holds one exactly when it stands
\* at its send, and so receives only when its consumer has accepted all it
\* emitted; after k Map stages the source has handed off at most k elements
\* more than the final consumer has received.
C16_Backpressure ==
    /\ \A i \in Transforms :
        /\ IsPrefix(out[i], Due(i))
        /\ InHand(i) \in {0, 1}
        /\ InHand(i) = 1 <=> pc[i] = "send"
        /\ pc[i] = "recv" => out[i] = Due(i)
    /\ StagesOf("Map") = Transforms => Len(out[0]) - Len(out[K]) <= K

\* C16's case: a source followed by two Map stages is two elements ahead of
\* the final consumer, each Map holding one
C16_Witness ==
    /\ K = 2
    /\ StagesOf("Map") = Transforms
    /\ Len(out[K]) >= 1
    /\ Len(out[0]) - Len(out[K]) = K
    /\ \A i \in Transforms : InHand(i) = 1

\* task i (a transform or the terminal call) finds channel i-1 closed at its
\* receive and leaves its loop
SeesClosed(i) == IF i = Term THEN Return ELSE UpstreamClosed(i)

\* C17: a channel is closed only by the step of its own producer that runs the
\* deferred close, and only when it was open (no second close); a closed channel
\* stays closed and carries no further element; no producer stands at a send or
\* at a close of a channel that is closed; and a receiver at a closed channel
\* can take its end-of-stream step at once and can take no element.
C17_CloseDiscipline ==
    /\ [][\A i \in Producers :
            /\ closed'[i] # closed[i] =>
                /\ ~closed[i]
                /\ pc[i] = "exit"
                /\ pc'[i] = "done"
                /\ \A j \in Producers \ {i} : closed'[j] = closed[j] /\ pc'[j] = pc[j]
            /\ closed[i] => closed'[i] /\ out'[i] = out[i]]_vars
    /\ [](\A i \in Producers :
            /\ closed[i] => pc[i] = "done"
            /\ pc[i] = "exit" => ~closed[i]
            /\ (closed[i] /\ pc[i + 1] = "recv") =>
                /\ ENABLED SeesClosed(i + 1)
                /\ ~CanReceive(i + 1))

\* C17's case: Take has stopped early and closed its channel while its upstream
\* is open, and its receiver stands at the closed channel
C17_Witness ==
    \E i \in StagesOf("Take") :
        /\ closed[i]
        /\ ~closed[i - 1]
        /\ pc[i + 1] = "recv"
        /\ Len(out[i]) >= 1

\* the Map, Filter and Drop stages
Propagating == StagesOf("Map") \cup StagesOf("Filter") \cup StagesOf("Drop")

\* the consumer of stage i keeps receiving: no Take stage downstream of i stops
\* the draining that the terminal call does
Drained(i) == \A j \in (i + 1)..K : stages[j].op # "Take"

\* C18: a Map, Filter or Drop stage leaves its loop and closes its output only
\* with its upstream closed, and then it has delivered every element due for
\* the elements of the upstream; and once the upstream is closed and the
\* stage's consumer keeps receiving, the output is closed in the end.
C18_ClosePropagates ==
    /\ [](\A i \in Propagating :
            /\ pc[i] \in {"exit", "done"} => closed[i - 1]
            /\ closed[i] => closed[i - 1] /\ out[i] = Due(i))
    /\ <>[](\A i \in Propagating : (Drained(i) /\ closed[i - 1]) => closed[i])

\* C18's case: a Filter or Drop stage has closed its output after its upstream
\* closed, having received two elements or more and delivered some
C18_Witness ==
    \E i \in StagesOf("Filter") \cup StagesOf("Drop") :
        /\ Drained(i)
        /\ closed[i - 1]
        /\ closed[i]
        /\ Len(out[i - 1]) >= 2
        /\ Len(out[i]) >= 1
        /\ Len(out[i]) < Len(out[i - 1])

\* the elements the source can hand off: Range's interval, or the naturals up
\* to where Seq is cut
SourceList ==
    IF src.kind = "Range" THEN RangeList(src.from, src.to)
    ELSE [j \in 1..src.cap |-> j - 1]

\* the list the stages up to i make of SourceList, by the stages' definitions
RECURSIVE Denote(_)
Denote(i) ==
    IF i = 0 THEN SourceList
    ELSE LET S == Denote(i - 1)
             st == stages[i]
         IN CASE st.op = "Map" -> MapList(st.fn, S)
              [] st.op = "Filter" -> FilterList(st.fn, S)
              [] st.op = "Take" -> TakeList(S, st.n)
              [] st.op = "Drop" -> DropList(S, st.n)

\* C19: the value a Collect or Reduce call returns is a function of the
\* pipeline alone (its source, stages, callbacks and terminal), whatever the
\* interleaving of the tasks that led to the return: two executions of one
\* pipeline that return, return the same value.
C19_ResultIsFunctionOfPipeline ==
    pc[Term] = "done" =>
        IF term.op = "Collect"
        THEN s = Denote(K)
        ELSE acc = FoldLeft(term.fn, term.init, Denote(K))

\* C19's case: a call has returned two elements or more, or their fold, from a
\* pipeline of two stages, one of them a Map
C19_Witness ==
    /\ pc[Term] = "done"
    /\ K = 2
    /\ StagesOf("Map") # {}
    /\ Len(out[K]) >= 2
    /\ out[K][1] # out[K][2]

\* Seq().Filter(isBit).Take(n).Collect()
IsSeqFilterTake ==
    /\ src.kind = "Seq"
    /\ K = 2
    /\ stages[1] = [op |-> "Filter", fn |-> "isBit", n |-> 0]
    /\ stages[2].op = "Take"
    /\ term.op = "Collect"

\* C20: for every n, Take is past its loop or has closed its output only when
\* it has received one element more than the max(n,0) it emits, or has seen its
\* upstream closed having emitted all it received; so while the upstream has
\* delivered max(n,0) elements or fewer and is open, Take's output is open, and
\* over Seq().Filter(p) with p true of two naturals only, Take(n) with n >= 2
\* never closes its output and Collect never returns.
C20_TakeCloseCondition ==
    /\ \A i \in StagesOf("Take") :
        LET m == Max(stages[i].n, 0)
            ended == pc[i] \in {"exit", "done"} \/ closed[i]
        IN /\ ended =>
                \/ Len(out[i - 1]) = m + 1 /\ Len(out[i]) = m
                \/ /\ closed[i - 1]
                   /\ Len(out[i - 1]) <= m
                   /\ Len(out[i]) = Len(out[i - 1])
           /\ (Len(out[i - 1]) <= m /\ ~closed[i - 1]) => ~ended
    /\ (IsSeqFilterTake /\ stages[2].n >= 2) =>
        /\ Len(out[1]) <= 2
        /\ ~closed[2]
        /\ pc[2] \notin {"exit", "done"}
        /\ pc[Term] # "done"

\* C20's case: over Seq().Filter(isBit), Take(3) has received and emitted the
\* two elements there are, Filter has read Seq as far as it is cut, and Take
\* and Collect stand at their receives with every channel open
C20_Witness ==
    /\ IsSeqFilterTake
    /\ stages[2].n = 3
    /\ cnt[0] = src.cap
    /\ out[1] = <<0, 1>>
    /\ s = <<0, 1>>
    /\ pc[1] = "recv"
    /\ pc[2] = "recv"
    /\ pc[Term] = "recv"
    /\ \A i \in Producers : ~closed[i]

\* n > 1 and no i with 2 <= i and i*i <= n divides n
HasNoSmallDivisor(n) == n > 1 /\ \A d \in 2..n : d * d <= n => n % d # 0

\* the element Filter stage i holds at its send, as a list
Held(i) == IF pc[i] = "send" THEN <<val[i]>> ELSE <<>>

\* C21: isPrime(n) is true if and only if n > 1 and no integer i with 2 <= i
\* and i*i <= n divides n: of the integers a Filter(isPrime) stage has received,
\* it has passed on exactly those, so never 0 or 1.
C21_IsPrimeIffNoDivisor ==
    \A i \in StagesOf("Filter") :
        stages[i].fn = "isPrime" =>
            out[i] \o Held(i) = SelectSeq(out[i - 1], HasNoSmallDivisor)

====
